---- MODULE Spec2Model ----
(***************************************************************************)
(* DescrambledImage (frontend/app.js): the segmentation rule, the canvas   *)
(* reconstruction and the visibility-gated, token-cancelled load protocol  *)
(* of one component instance.                                              *)
(*                                                                         *)
(* JavaScript strings are sequences of one-character strings; JavaScript   *)
(* values are tagged records (undefined, number or NaN, string).           *)
(***************************************************************************)
EXTENDS Integers, Sequences, FiniteSets

(* ---------------------------------------------------------------- bounds *)
\* cap on the number of loadImage calls of one instance (loadToken counter)
MaxLoads == 3
\* decoded rasters have naturalHeight in 0..MaxH and naturalWidth in 1..MaxW
MaxH == 2
MaxW == 1
\* direct applications of cutImage: raster heights 0..MaxCutH (and 300),
\* slice counts 2..MaxSlices, MaxCuts successive reconstructions
MaxCutH == 12
MaxSlices == 6
MaxCuts == 2
\* download-task polling: calls of setInterval, and requests of one kind
\* that await their response at the same time
MaxTimers == 3
MaxPending == 2

(* ------------------------------------------------------ JavaScript values *)
Undefined == [t |-> "undef"]
NaN       == [t |-> "num", nan |-> TRUE,  v |-> 0]
Num(n)    == [t |-> "num", nan |-> FALSE, v |-> n]
Str(s)    == [t |-> "str", s |-> s]

isNaN(x) == x.nan

DecDigits == <<"0","1","2","3","4","5","6","7","8","9">>

\* value of a character as a digit (99: not a digit in any radix used here)
DigitVal(c) ==
    CASE c \in {"0","1","2","3","4","5","6","7","8","9"} ->
            (CHOOSE i \in 1..10 : DecDigits[i] = c) - 1
      [] c \in {"a","A"} -> 10
      [] c \in {"b","B"} -> 11
      [] c \in {"c","C"} -> 12
      [] c \in {"d","D"} -> 13
      [] c \in {"e","E"} -> 14
      [] c \in {"f","F"} -> 15
      [] OTHER -> 99

RECURSIVE NatToString(_)
NatToString(n) ==
    IF n < 10 THEN <<DecDigits[n + 1]>>
    ELSE NatToString(n \div 10) \o <<DecDigits[(n % 10) + 1]>>

\* String(x)
String(x) ==
    CASE x.t = "undef" -> <<"u","n","d","e","f","i","n","e","d">>
      [] x.t = "str"   -> x.s
      [] x.t = "num"   ->
            IF x.nan THEN <<"N","a","N">>
            ELSE IF x.v < 0 THEN <<"-">> \o NatToString(-x.v)
            ELSE NatToString(x.v)

RECURSIVE TrimLeft(_)
TrimLeft(s) ==
    IF s # <<>> /\ Head(s) = " " THEN TrimLeft(Tail(s)) ELSE s

\* the longest prefix of s made of digits of the radix, as a number so far
RECURSIVE ParseDigits(_, _, _, _)
ParseDigits(s, radix, acc, seen) ==
    IF s # <<>> /\ DigitVal(Head(s)) < radix
    THEN ParseDigits(Tail(s), radix, acc * radix + DigitVal(Head(s)), TRUE)
    ELSE [seen |-> seen, v |-> acc]

\* parseInt(x) without a radix argument
parseInt(x) ==
    LET t    == TrimLeft(String(x))
        neg  == t # <<>> /\ Head(t) = "-"
        u    == IF t # <<>> /\ Head(t) \in {"+", "-"} THEN Tail(t) ELSE t
        hex  == Len(u) >= 2 /\ u[1] = "0" /\ u[2] \in {"x", "X"}
        body == IF hex THEN SubSeq(u, 3, Len(u)) ELSE u
        r    == ParseDigits(body, IF hex THEN 16 ELSE 10, 0, FALSE)
    IN  IF ~r.seen THEN NaN
        ELSE Num(IF neg THEN -r.v ELSE r.v)

\* s.charCodeAt(i) for the characters a hexadecimal digest is made of
CharCodeHexValue(c) == DigitVal(c)

CharCode(c) ==
    CASE c \in {"0","1","2","3","4","5","6","7","8","9"} -> 48 + DigitVal(c)
      [] c \in {"a","b","c","d","e","f"}                 -> 87 + DigitVal(c)

\* page.split('.')[0]
RECURSIVE BeforeFirstDot(_)
BeforeFirstDot(s) ==
    IF s = <<>> \/ Head(s) = "." THEN <<>>
    ELSE <<Head(s)>> \o BeforeFirstDot(Tail(s))

\* /\.gif$/i.test(page)
IsGifCaseSensitive(page) ==
    /\ Len(page) >= 4
    /\ SubSeq(page, Len(page) - 3, Len(page)) = <<".","g","i","f">>

IsGif(page) ==
    /\ Len(page) >= 4
    /\ page[Len(page) - 3] = "."
    /\ page[Len(page) - 2] \in {"g", "G"}
    /\ page[Len(page) - 1] \in {"i", "I"}
    /\ page[Len(page)]     \in {"f", "F"}

(* ------------------------------------------------------------ the digest *)
\* CryptoJS.MD5(inputStr).toString(): the MD5 digests (lower-case hex) of the
\* inputs the model uses
MD5Table ==
    { <<<<"2","6","8","8","5","0","0","0","0","0","3">>,
         <<"8","4","f","1","b","0","6","2","2","6","6","1","f","3","f","b","7","0","e","1","a","b","b","2","6","0","0","5","b","0","9","0">>>>
    , <<<<"2","6","8","8","5","0","0","0","0","1","4">>,
         <<"6","4","c","b","5","d","1","7","0","d","a","3","4","5","5","5","8","b","e","c","b","4","1","9","9","1","9","6","2","4","0","1">>>>
    , <<<<"2","6","8","8","5","0","0","0","0","3","5">>,
         <<"e","b","f","a","b","0","5","4","8","e","7","8","3","3","5","3","3","6","e","d","c","4","6","7","3","8","3","4","b","2","2","2">>>>
    , <<<<"2","6","8","8","5","0","0","0","0","0","2">>,
         <<"e","a","5","d","a","a","5","6","b","3","5","b","3","c","d","8","f","d","9","c","8","0","b","3","4","3","a","e","6","c","a","3">>>>
    , <<<<"2","6","8","8","5","0","0","0","0","4","7">>,
         <<"a","d","b","9","3","b","f","4","9","f","7","b","3","f","1","f","8","c","9","1","a","a","c","6","e","d","6","c","6","f","f","4">>>>
    , <<<<"2","6","8","8","5","0","0","0","0","0","5">>,
         <<"c","3","7","9","7","0","c","1","7","5","0","b","c","b","e","7","b","f","e","1","6","a","3","f","6","8","9","0","0","0","7","5">>>>
    , <<<<"2","6","8","8","5","0","0","0","0","2","5">>,
         <<"8","6","9","6","b","8","0","5","d","4","f","a","8","5","1","3","6","a","6","6","b","5","4","3","5","e","0","9","8","c","a","6">>>>
    , <<<<"2","6","8","8","5","0","0","0","0","0","9">>,
         <<"2","1","a","2","7","7","1","8","b","5","c","f","b","8","a","6","2","a","7","d","e","b","c","6","2","e","4","2","b","3","f","7">>>>
    , <<<<"2","6","8","8","5","0","0","0","0","4","3">>,
         <<"b","8","1","7","c","f","8","c","0","7","e","5","b","7","e","8","5","c","2","a","7","8","e","7","6","6","8","8","a","a","1","8">>>>
    , <<<<"2","6","8","8","5","0","0","0","0","0","6">>,
         <<"3","9","4","9","9","3","b","4","1","d","e","f","d","4","e","4","3","f","3","d","3","8","4","0","5","7","9","c","9","b","a","9">>>>
    , <<<<"2","6","8","8","5","0","0","0","0","1","1">>,
         <<"1","6","2","2","8","f","9","2","e","3","f","4","b","e","7","b","6","2","7","1","d","1","f","3","6","7","3","8","7","b","a","a">>>>
    , <<<<"2","6","8","8","5","0","0","0","0","4","2">>,
         <<"a","2","6","b","4","c","c","c","e","9","c","4","5","d","9","e","1","a","3","6","c","1","7","4","8","8","8","b","f","d","3","b">>>>
    , <<<<"2","6","8","8","5","0","0","0","0","1","7">>,
         <<"b","d","5","7","7","6","0","2","4","c","2","2","a","c","0","2","8","9","6","a","e","c","3","8","7","f","c","2","b","6","f","c">>>>
    , <<<<"2","6","8","8","5","0","0","0","0","1","2">>,
         <<"f","b","0","d","0","f","3","1","2","7","a","b","b","3","0","d","5","e","9","4","7","8","3","a","7","7","3","3","a","9","b","d">>>>
    , <<<<"2","6","8","8","5","0","0","0","0","2","2">>,
         <<"9","d","f","e","c","d","5","e","4","0","4","5","5","c","b","e","7","f","7","e","d","e","6","b","2","d","7","6","8","c","4","e">>>>
    , <<<<"2","6","8","8","5","0","0","0","0","0","1">>,
         <<"c","b","0","7","5","e","5","f","8","9","3","b","b","1","5","f","4","c","0","8","d","3","c","3","d","3","7","d","0","f","f","f">>>>
    , <<<<"3","0","0","0","0","0","0","0","0","2","3">>,
         <<"f","f","c","8","9","9","0","d","f","0","4","e","6","8","9","0","d","b","5","a","b","7","7","c","5","e","3","4","6","6","3","0">>>>
    , <<<<"3","0","0","0","0","0","0","0","0","0","8">>,
         <<"9","d","e","7","b","f","a","0","a","0","3","6","8","0","6","3","4","b","a","d","c","8","6","4","e","3","e","0","f","6","5","1">>>>
    , <<<<"3","0","0","0","0","0","0","0","0","0","5">>,
         <<"6","b","0","5","0","4","8","0","4","f","0","b","8","9","2","c","8","7","b","9","6","8","a","4","f","7","e","d","8","0","9","2">>>>
    , <<<<"3","0","0","0","0","0","0","0","0","3","4">>,
         <<"d","4","2","d","4","6","2","d","5","0","8","3","1","b","d","d","1","9","b","4","9","5","f","5","d","4","f","6","7","e","d","3">>>>
    , <<<<"3","0","0","0","0","0","0","0","0","1","0">>,
         <<"4","8","e","7","8","a","2","0","d","0","8","8","a","e","a","4","8","4","1","1","e","a","1","2","a","f","e","4","0","5","0","4">>>>
    , <<<<"3","0","0","0","0","0","0","0","0","3","2">>,
         <<"c","6","5","7","7","2","c","5","2","2","f","3","f","1","e","0","2","1","8","7","9","2","3","4","3","d","7","c","e","7","3","5">>>>
    , <<<<"3","0","0","0","0","0","0","0","0","1","7">>,
         <<"2","c","1","a","e","b","0","7","1","7","7","d","5","d","8","0","1","a","1","c","4","7","5","a","a","1","e","5","e","1","5","6">>>>
    , <<<<"3","0","0","0","0","0","0","0","0","0","2">>,
         <<"2","8","d","8","5","d","6","a","7","7","b","d","d","f","5","b","8","1","8","8","0","2","b","9","0","c","e","b","5","4","6","7">>>>
    , <<<<"3","0","0","0","0","0","0","0","0","2","5">>,
         <<"d","5","6","6","8","6","1","3","8","e","d","4","c","3","8","3","0","2","b","5","7","6","8","c","7","a","1","1","9","f","d","8">>>>
    , <<<<"3","0","0","0","0","0","0","0","0","1","9">>,
         <<"f","9","1","a","0","f","2","2","7","e","0","0","6","f","6","7","5","9","8","d","e","f","4","4","9","c","a","4","0","9","d","9">>>>
    , <<<<"3","0","0","0","0","0","0","0","0","0","1">>,
         <<"6","6","c","9","8","7","8","4","b","3","1","c","6","c","7","6","c","f","9","e","6","d","4","f","8","3","7","e","a","0","c","a">>>>
    , <<<<"3","0","0","0","0","0","0","0","0","0","9">>,
         <<"b","8","d","7","d","4","f","d","2","c","4","d","8","2","0","1","3","a","f","f","d","8","6","4","2","0","8","4","4","3","1","b">>>>
    , <<<<"3","0","0","0","0","0","0","0","0","2","1">>,
         <<"d","a","7","e","7","d","d","7","2","1","b","d","a","3","1","6","c","d","c","f","5","d","5","4","a","a","7","e","5","c","0","c">>>>
    , <<<<"3","0","0","0","0","0","0","0","0","1","8">>,
         <<"8","b","e","6","f","a","d","e","c","5","d","0","8","b","5","2","3","2","5","f","5","0","7","1","a","b","4","1","a","0","2","d">>>>
    , <<<<"3","0","0","0","0","0","0","0","0","0","3">>,
         <<"9","8","a","f","6","3","6","3","1","5","2","b","9","e","a","0","b","e","b","7","e","e","d","4","4","3","6","9","0","a","5","e">>>>
    , <<<<"3","0","0","0","0","0","0","0","0","0","4">>,
         <<"9","3","b","c","6","5","a","8","6","8","2","2","9","a","7","f","a","8","b","5","8","1","b","d","d","b","9","a","e","0","4","f">>>>
    , <<<<"4","2","1","9","2","6","0","0","0","0","9">>,
         <<"6","7","f","6","c","6","d","2","d","8","3","a","0","9","8","c","0","5","a","5","b","1","1","d","0","f","8","d","f","9","0","0">>>>
    , <<<<"4","2","1","9","2","6","0","0","0","0","5">>,
         <<"c","6","1","9","d","e","4","1","c","d","9","2","3","a","9","a","6","8","7","3","b","9","5","2","6","c","2","9","2","d","a","1">>>>
    , <<<<"4","2","1","9","2","6","0","0","0","2","0">>,
         <<"7","e","7","e","8","0","6","6","6","0","0","0","a","5","5","0","4","c","a","f","2","f","7","8","4","7","9","2","c","0","9","2">>>>
    , <<<<"4","2","1","9","2","6","0","0","0","1","8">>,
         <<"1","3","6","0","d","d","f","0","0","7","7","3","0","4","7","f","c","9","b","a","8","3","0","8","4","e","a","d","4","e","0","3">>>>
    , <<<<"4","2","1","9","2","6","0","0","0","1","4">>,
         <<"f","b","d","2","5","6","2","5","6","f","7","1","4","a","1","0","b","e","1","e","1","9","0","4","5","4","6","6","c","b","8","4">>>>
    , <<<<"4","2","1","9","2","6","0","0","0","0","2">>,
         <<"4","7","2","6","f","c","7","d","4","b","0","1","1","8","0","0","d","9","d","5","1","b","3","d","f","8","2","7","7","e","f","5">>>>
    , <<<<"4","2","1","9","2","6","0","0","0","2","3">>,
         <<"1","8","4","b","9","1","0","d","1","9","6","6","c","6","a","9","8","b","d","5","7","2","8","b","e","1","f","8","c","c","4","6">>>>
    , <<<<"4","2","1","9","2","6","0","0","0","1","0">>,
         <<"a","c","3","7","5","7","8","c","b","f","1","7","9","5","c","5","5","6","7","f","2","6","e","9","9","c","1","a","3","4","e","7">>>>
    , <<<<"4","2","1","9","2","6","0","0","0","1","3">>,
         <<"b","5","0","e","f","d","b","3","d","9","e","2","b","3","c","4","3","f","1","b","4","f","4","4","c","f","4","0","1","9","3","8">>>>
    , <<<<"4","2","1","9","2","6","0","0","0","0","3">>,
         <<"a","b","8","0","c","c","6","4","e","a","c","9","3","5","4","6","7","1","f","b","5","1","0","f","3","1","5","b","e","e","5","9">>>>
    , <<<<"4","2","1","9","2","6","0","0","0","0","8">>,
         <<"2","2","a","3","3","7","a","2","3","c","6","1","5","6","8","2","a","2","a","7","e","e","6","1","8","d","1","4","2","0","b","a">>>>
    , <<<<"4","2","1","9","2","6","0","0","0","2","2">>,
         <<"8","f","5","7","8","b","f","c","0","3","f","b","9","5","e","e","e","4","7","5","4","f","0","7","8","2","a","5","3","e","a","b">>>>
    , <<<<"4","2","1","9","2","6","0","0","0","1","2">>,
         <<"2","e","7","c","b","b","0","6","e","4","f","4","9","f","0","d","6","2","7","1","e","8","5","e","6","e","1","7","d","0","2","c">>>>
    , <<<<"4","2","1","9","2","6","0","0","0","4","7">>,
         <<"6","0","d","e","c","b","0","f","3","e","3","d","1","8","7","8","5","a","9","9","b","a","e","3","5","5","e","9","1","f","c","d">>>>
    , <<<<"4","2","1","9","2","6","0","0","0","5","1">>,
         <<"9","5","6","d","0","0","c","7","1","2","2","a","a","1","6","1","f","b","f","8","c","9","9","4","1","b","8","c","d","c","0","e">>>>
    , <<<<"4","2","1","9","2","6","0","0","0","0","1">>,
         <<"f","a","d","1","3","1","a","2","0","e","a","f","c","5","b","f","4","1","3","1","4","3","0","a","1","9","a","d","1","2","e","f">>>>
    , <<<<"4","2","1","9","2","7","0","0","0","2","6">>,
         <<"a","b","5","8","6","1","0","7","3","1","f","b","e","b","8","4","6","c","a","3","a","8","3","7","5","9","7","3","3","5","3","0">>>>
    , <<<<"4","2","1","9","2","7","0","0","0","1","0">>,
         <<"3","5","f","1","c","5","6","e","a","1","6","1","e","a","c","5","5","5","3","c","2","f","0","a","1","6","8","d","b","4","8","1">>>>
    , <<<<"4","2","1","9","2","7","0","0","0","1","5">>,
         <<"1","d","4","6","1","a","f","c","9","0","6","e","a","e","f","a","c","1","b","6","e","a","e","2","6","b","6","4","7","c","8","2">>>>
    , <<<<"4","2","1","9","2","7","0","0","0","0","6">>,
         <<"7","f","9","f","3","f","a","f","6","3","0","d","9","9","4","7","3","9","1","f","5","d","6","c","e","4","a","0","1","d","7","3">>>>
    , <<<<"4","2","1","9","2","7","0","0","0","1","3">>,
         <<"b","c","8","b","6","6","d","9","9","c","9","4","f","2","f","b","a","a","7","0","7","b","5","2","2","3","c","5","2","8","d","4">>>>
    , <<<<"4","2","1","9","2","7","0","0","0","0","5">>,
         <<"a","8","3","d","e","7","6","5","4","0","8","c","e","2","4","c","3","f","b","7","5","9","6","e","5","8","5","0","b","c","5","5">>>>
    , <<<<"4","2","1","9","2","7","0","0","0","1","4">>,
         <<"5","2","9","f","0","4","a","4","a","8","0","2","1","a","e","6","f","d","9","0","1","5","4","b","b","9","a","4","7","5","b","6">>>>
    , <<<<"4","2","1","9","2","7","0","0","0","2","8">>,
         <<"5","9","f","1","7","e","7","c","2","b","1","1","f","5","a","a","4","0","3","0","6","0","f","e","e","8","2","0","2","6","1","7">>>>
    , <<<<"4","2","1","9","2","7","0","0","0","3","2">>,
         <<"d","3","9","2","d","e","e","8","e","8","c","a","0","5","0","9","3","c","2","9","2","2","7","5","e","8","b","5","6","9","3","8">>>>
    , <<<<"4","2","1","9","2","7","0","0","0","2","1">>,
         <<"2","5","1","e","e","e","b","6","7","c","5","0","a","c","d","0","0","1","3","6","7","5","0","9","e","4","8","5","8","6","0","9">>>>
    , <<<<"4","2","1","9","2","7","0","0","0","0","4">>,
         <<"6","0","1","7","0","7","6","c","0","4","7","d","6","6","0","4","9","9","a","1","4","6","9","a","1","4","1","4","0","0","3","a">>>>
    , <<<<"4","2","1","9","2","7","0","0","0","5","7">>,
         <<"9","a","2","b","1","c","9","e","b","8","5","a","5","7","2","a","2","d","e","8","6","3","4","c","2","0","2","7","b","d","b","b">>>>
    , <<<<"4","2","1","9","2","7","0","0","0","0","1">>,
         <<"b","a","b","5","3","1","5","5","5","a","b","0","0","7","7","f","d","9","f","3","e","3","a","2","d","6","7","9","9","e","c","c">>>>
    , <<<<"4","2","1","9","2","7","0","0","0","1","6">>,
         <<"6","4","d","e","1","8","8","9","1","6","7","1","d","3","0","9","7","7","9","b","d","4","e","d","c","4","e","8","f","f","f","d">>>>
    , <<<<"4","2","1","9","2","7","0","0","0","0","3">>,
         <<"f","3","8","6","b","0","6","8","9","9","9","7","3","2","8","e","d","5","3","6","e","b","7","e","f","7","7","c","9","3","e","e">>>>
    , <<<<"4","2","1","9","2","7","0","0","0","0","2">>,
         <<"b","8","c","1","e","f","0","2","9","0","0","8","2","1","4","1","4","b","1","3","2","0","0","e","e","e","c","8","a","5","9","f">>>>
    , <<<<"5","0","0","0","0","0","0","0","0","1","6">>,
         <<"8","7","1","0","8","c","e","e","f","7","a","e","6","9","3","e","d","4","9","a","7","d","3","8","9","e","b","e","e","9","5","0">>>>
    , <<<<"5","0","0","0","0","0","0","0","0","4","1">>,
         <<"a","2","6","e","8","a","2","8","4","b","7","b","3","5","7","c","1","c","0","7","8","3","e","a","1","7","e","7","5","0","d","1">>>>
    , <<<<"5","0","0","0","0","0","0","0","0","0","5">>,
         <<"0","8","2","1","9","5","8","d","8","8","5","b","b","3","b","4","b","b","6","2","1","3","a","a","0","d","8","0","7","9","b","2">>>>
    , <<<<"5","0","0","0","0","0","0","0","0","1","0">>,
         <<"6","5","7","7","9","b","f","8","c","c","7","3","5","a","c","0","4","8","2","5","4","1","3","4","a","f","4","d","0","d","9","3">>>>
    , <<<<"5","0","0","0","0","0","0","0","0","1","8">>,
         <<"f","a","3","c","d","9","d","8","7","e","a","5","5","8","5","9","3","5","e","e","2","f","6","9","0","6","2","4","a","3","a","4">>>>
    , <<<<"5","0","0","0","0","0","0","0","0","0","1">>,
         <<"5","b","9","c","0","f","3","d","8","6","1","b","b","4","6","6","9","a","3","c","4","0","4","f","8","a","0","5","4","9","2","5">>>>
    , <<<<"5","0","0","0","0","0","0","0","0","0","9">>,
         <<"9","7","c","7","5","4","8","0","e","d","b","4","4","1","6","3","f","8","1","3","0","d","0","a","9","f","2","0","4","7","0","6">>>>
    , <<<<"5","0","0","0","0","0","0","0","0","7","8">>,
         <<"a","a","9","c","0","0","6","5","8","0","8","7","a","8","2","0","e","f","4","5","5","5","0","f","d","8","e","5","8","0","1","7">>>>
    , <<<<"5","0","0","0","0","0","0","0","0","0","4">>,
         <<"c","f","1","e","5","8","a","f","9","c","5","c","2","9","b","6","5","d","6","c","b","7","b","0","6","9","4","b","1","b","7","8">>>>
    , <<<<"5","0","0","0","0","0","0","0","0","0","8">>,
         <<"b","2","e","2","a","2","6","3","0","b","5","6","b","c","3","0","5","3","3","6","9","c","b","8","5","9","7","1","d","8","0","9">>>>
    , <<<<"5","0","0","0","0","0","0","0","0","1","1">>,
         <<"7","2","b","4","3","b","4","b","3","3","a","2","c","9","f","a","7","2","a","9","4","6","2","d","c","8","8","b","3","4","d","a">>>>
    , <<<<"5","0","0","0","0","0","0","0","0","1","4">>,
         <<"2","0","8","9","7","c","2","4","3","3","c","6","d","d","b","5","0","e","f","4","f","1","b","f","d","7","1","6","0","b","b","b">>>>
    , <<<<"5","0","0","0","0","0","0","0","0","1","9">>,
         <<"a","2","a","f","2","9","4","4","1","6","0","5","9","5","7","d","3","8","d","2","7","6","8","9","3","8","b","9","f","0","9","c">>>>
    , <<<<"5","0","0","0","0","0","0","0","0","1","3">>,
         <<"0","6","d","1","c","0","9","3","4","4","2","e","6","4","0","7","2","d","1","7","3","1","b","3","5","3","e","9","2","e","a","d">>>>
    , <<<<"5","0","0","0","0","0","0","0","0","2","0">>,
         <<"2","1","b","c","1","0","7","4","c","4","5","7","1","b","3","3","d","7","7","e","f","f","2","c","5","9","d","3","c","c","4","e">>>>
    , <<<<"5","0","0","0","0","0","0","0","0","0","3">>,
         <<"5","9","8","9","0","0","e","2","8","f","c","f","7","d","6","4","8","f","a","8","a","3","7","7","d","7","4","3","7","8","f","f">>>>
    , <<<<"N","a","N","0","0","0","0","1">>,
         <<"d","d","0","c","7","b","3","d","5","0","e","a","1","3","0","c","1","8","d","c","2","3","5","c","8","3","e","7","8","3","b","e">>>>
    , <<<<"N","a","N","0","0","0","0","2">>,
         <<"e","6","1","5","3","7","c","b","7","0","8","9","7","a","d","d","e","5","c","1","9","8","2","4","3","3","2","5","5","c","1","0">>>>
    , <<<<"N","a","N","0","0","0","0","3">>,
         <<"f","e","4","e","5","9","3","9","b","5","6","3","0","8","8","4","6","d","7","7","c","0","2","d","0","d","d","7","8","5","0","a">>>>
    , <<<<"N","a","N","0","0","0","0","4">>,
         <<"8","9","b","9","9","c","d","6","4","3","d","a","4","8","8","b","3","1","f","e","4","5","7","f","b","e","3","1","9","9","a","c">>>>
    , <<<<"N","a","N","0","0","0","0","5">>,
         <<"9","4","8","1","1","7","e","5","4","9","2","e","0","3","0","b","b","a","3","4","1","4","1","e","7","a","8","c","6","a","4","3">>>>
    , <<<<"N","a","N","0","0","0","0","6">>,
         <<"d","4","9","5","d","0","d","0","9","b","b","9","5","1","a","9","7","a","7","3","a","b","3","6","f","5","c","b","6","c","e","4">>>>
    , <<<<"N","a","N","0","0","0","0","8">>,
         <<"3","c","4","9","5","0","5","f","3","6","2","c","e","5","b","9","2","8","3","f","d","0","2","d","0","4","c","7","c","a","6","7">>>>
    , <<<<"N","a","N","0","0","0","0","9">>,
         <<"c","2","c","1","4","1","a","3","b","5","e","b","d","a","f","0","d","f","9","6","3","0","3","b","5","b","b","c","d","f","1","6">>>>
    , <<<<"N","a","N","0","0","0","1","0">>,
         <<"f","9","3","2","c","d","e","d","8","d","5","f","b","8","4","d","9","6","8","1","d","0","3","4","a","5","1","f","5","3","1","a">>>>
    , <<<<"N","a","N","0","0","0","1","1">>,
         <<"1","a","0","a","8","1","7","2","4","c","8","a","a","a","6","b","3","8","0","c","7","d","b","2","2","0","0","e","9","2","8","3">>>>
    , <<<<"N","a","N","0","0","0","1","2">>,
         <<"f","e","c","1","b","b","0","c","d","8","9","9","3","f","2","9","5","7","c","4","1","e","4","2","0","8","5","9","9","4","c","e">>>>
    , <<<<"N","a","N","0","0","0","1","3">>,
         <<"e","f","7","6","a","0","9","7","9","a","2","9","0","4","b","6","f","a","5","c","3","3","d","6","d","c","9","c","4","2","5","9">>>>
    , <<<<"N","a","N","0","0","0","1","4">>,
         <<"f","3","7","9","1","0","0","1","a","8","a","c","2","4","5","a","4","7","9","a","4","5","2","c","2","2","6","3","9","2","a","7">>>>
    , <<<<"N","a","N","0","0","0","1","5">>,
         <<"7","3","7","3","b","f","5","9","9","a","1","a","1","6","d","4","4","9","e","9","5","7","a","d","c","e","0","4","7","e","0","5">>>>
    , <<<<"N","a","N","0","0","0","1","6">>,
         <<"7","6","e","9","3","f","7","f","1","d","c","b","a","9","4","e","0","7","c","6","c","f","5","b","3","6","e","f","a","7","f","2">>>>
    , <<<<"N","a","N","0","0","0","1","7">>,
         <<"b","8","5","d","e","2","7","c","f","1","7","9","9","a","7","4","1","4","c","3","3","e","d","2","9","5","e","5","a","2","a","c">>>>
    , <<<<"N","a","N","0","0","0","1","8">>,
         <<"2","6","4","9","a","0","0","5","8","e","4","c","d","6","3","7","8","b","3","7","4","5","1","c","d","4","2","6","f","d","0","b">>>>
    , <<<<"N","a","N","0","0","0","1","9">>,
         <<"6","5","c","2","b","e","d","3","9","4","9","5","7","c","1","e","c","f","0","6","0","a","5","b","0","6","d","8","a","7","f","e">>>>
    , <<<<"N","a","N","0","0","0","2","0">>,
         <<"a","2","b","c","5","a","a","3","e","8","2","e","a","9","8","3","5","0","7","c","a","d","c","8","6","2","9","6","2","d","1","c">>>>
    , <<<<"N","a","N","0","0","0","2","1">>,
         <<"4","3","1","f","4","9","2","6","6","d","c","a","7","2","2","d","3","d","c","8","b","b","d","9","1","3","6","d","c","f","0","6">>>>
    , <<<<"N","a","N","0","0","0","2","2">>,
         <<"7","4","f","0","1","6","c","d","2","9","2","2","c","3","9","5","c","4","6","3","7","1","8","d","3","c","c","0","f","a","a","a">>>>
    , <<<<"N","a","N","0","0","0","2","3">>,
         <<"e","4","f","b","5","6","a","1","7","4","6","c","f","5","9","1","d","d","5","b","b","4","c","f","3","e","4","e","5","3","b","4">>>>
    , <<<<"N","a","N","0","0","0","2","5">>,
         <<"8","9","2","6","1","c","9","a","2","b","5","2","d","4","d","d","7","b","9","8","7","5","8","b","6","f","2","7","f","a","2","d">>>>
    , <<<<"N","a","N","0","0","0","2","6">>,
         <<"0","a","1","4","2","e","0","c","8","6","1","d","9","6","1","3","b","0","3","6","2","1","2","5","f","0","d","1","2","1","c","8">>>>
    , <<<<"N","a","N","0","0","0","2","8">>,
         <<"0","2","5","d","5","e","e","d","0","8","8","d","5","6","b","e","b","a","c","f","c","a","c","8","d","7","f","3","8","6","4","c">>>>
    , <<<<"N","a","N","0","0","0","3","2">>,
         <<"9","1","3","b","6","3","c","3","4","8","b","f","9","8","d","c","b","c","b","8","6","1","3","e","e","2","e","1","b","4","c","6">>>>
    , <<<<"N","a","N","0","0","0","3","4">>,
         <<"a","d","0","6","5","9","b","e","d","f","4","8","a","a","d","4","7","c","4","0","b","3","d","3","b","8","8","4","8","3","6","1">>>>
    , <<<<"N","a","N","0","0","0","3","5">>,
         <<"d","9","2","0","f","2","d","5","0","c","f","d","5","4","d","4","d","5","1","7","1","6","b","6","b","2","d","0","e","d","b","3">>>>
    , <<<<"N","a","N","0","0","0","4","1">>,
         <<"4","4","3","0","0","a","3","6","f","1","f","6","a","a","a","2","5","3","9","d","0","b","3","c","c","3","1","5","e","8","b","c">>>>
    , <<<<"N","a","N","0","0","0","4","2">>,
         <<"9","f","b","8","3","0","b","6","7","3","9","1","8","8","2","a","5","3","a","3","3","7","3","b","b","d","e","4","7","f","1","e">>>>
    , <<<<"N","a","N","0","0","0","4","3">>,
         <<"0","0","b","b","6","7","9","d","3","d","d","6","1","5","c","b","4","3","f","7","c","0","0","1","1","a","9","6","9","3","0","d">>>>
    , <<<<"N","a","N","0","0","0","4","7">>,
         <<"8","4","5","b","1","d","8","7","4","6","8","1","0","8","a","5","6","8","4","d","d","c","9","2","6","a","6","1","1","8","0","5">>>>
    , <<<<"N","a","N","0","0","0","5","1">>,
         <<"8","f","7","4","b","d","1","4","5","f","f","4","e","d","0","c","7","8","9","c","4","4","b","3","a","8","d","7","9","3","3","e">>>>
    , <<<<"N","a","N","0","0","0","5","7">>,
         <<"c","c","8","a","2","e","0","2","b","7","8","1","f","c","e","9","9","1","7","b","0","7","3","2","0","8","4","6","f","8","1","d">>>>
    , <<<<"N","a","N","0","0","0","7","8">>,
         <<"c","4","c","b","8","0","2","b","9","2","9","0","2","2","f","4","7","5","5","5","5","2","e","e","1","3","4","2","5","6","b","5">>>>
    }

calculateMD5(inputStr) ==
    (CHOOSE e \in MD5Table : e[1] = inputStr)[2]

(* ------------------------------------------------- the segmentation rule *)
DefaultScrambleId == 220980
SecondThreshold   == 268850
ThirdThreshold    == 421926

\* variants of getSegmentationNum, each with one statement changed
\* line 49 dropped: a NaN eid compares false with everything
getSegmentationNumNoNaNCheck(epsId, scrambleId, pictureName) ==
    LET eid  == parseInt(epsId)
        sid0 == parseInt(scrambleId)
        sid  == IF sid0.nan \/ sid0.v = 0 \/ sid0.v <= 0
                THEN DefaultScrambleId ELSE sid0.v
    IN  IF ~eid.nan /\ eid.v < sid THEN 0
        ELSE IF ~eid.nan /\ eid.v < SecondThreshold THEN 10
        ELSE LET hashData == calculateMD5(String(eid) \o String(pictureName))
                 keyCode  == CharCode(hashData[Len(hashData)])
             IN  IF ~eid.nan /\ eid.v > ThirdThreshold
                 THEN (keyCode % 8) * 2 + 2
                 ELSE (keyCode % 10) * 2 + 2

\* line 48 as  if (!sid) sid = 220980
getSegmentationNumNegativeEpoch(epsId, scrambleId, pictureName) ==
    LET eid  == parseInt(epsId)
        sid0 == parseInt(scrambleId)
        sid  == IF sid0.nan \/ sid0.v = 0
                THEN DefaultScrambleId ELSE sid0.v
    IN  IF isNaN(eid) THEN 0
        ELSE IF eid.v < sid THEN 0
        ELSE IF eid.v < SecondThreshold THEN 10
        ELSE LET hashData == calculateMD5(String(Num(eid.v)) \o String(pictureName))
                 keyCode  == CharCode(hashData[Len(hashData)])
             IN  IF eid.v > ThirdThreshold
                 THEN (keyCode % 8) * 2 + 2
                 ELSE (keyCode % 10) * 2 + 2

\* line 50 as  if (eid <= sid) return 0
getSegmentationNumEpochExclusive(epsId, scrambleId, pictureName) ==
    LET eid  == parseInt(epsId)
        sid0 == parseInt(scrambleId)
        sid  == IF sid0.nan \/ sid0.v = 0 \/ sid0.v <= 0
                THEN DefaultScrambleId ELSE sid0.v
    IN  IF isNaN(eid) THEN 0
        ELSE IF eid.v <= sid THEN 0
        ELSE IF eid.v < SecondThreshold THEN 10
        ELSE LET hashData == calculateMD5(String(Num(eid.v)) \o String(pictureName))
                 keyCode  == CharCode(hashData[Len(hashData)])
             IN  IF eid.v > ThirdThreshold
                 THEN (keyCode % 8) * 2 + 2
                 ELSE (keyCode % 10) * 2 + 2

\* line 57 as  return (keyCode % 10) * 2
getSegmentationNumNoOffset(epsId, scrambleId, pictureName) ==
    LET eid  == parseInt(epsId)
        sid0 == parseInt(scrambleId)
        sid  == IF sid0.nan \/ sid0.v = 0 \/ sid0.v <= 0
                THEN DefaultScrambleId ELSE sid0.v
    IN  IF isNaN(eid) THEN 0
        ELSE IF eid.v < sid THEN 0
        ELSE IF eid.v < SecondThreshold THEN 10
        ELSE LET hashData == calculateMD5(String(Num(eid.v)) \o String(pictureName))
                 keyCode  == CharCode(hashData[Len(hashData)])
             IN  IF eid.v > ThirdThreshold
                 THEN (keyCode % 8) * 2 + 2
                 ELSE (keyCode % 10) * 2

\* lines 55 and 57 with the two moduli exchanged
getSegmentationNumSwappedModuli(epsId, scrambleId, pictureName) ==
    LET eid  == parseInt(epsId)
        sid0 == parseInt(scrambleId)
        sid  == IF sid0.nan \/ sid0.v = 0 \/ sid0.v <= 0
                THEN DefaultScrambleId ELSE sid0.v
    IN  IF isNaN(eid) THEN 0
        ELSE IF eid.v < sid THEN 0
        ELSE IF eid.v < SecondThreshold THEN 10
        ELSE LET hashData == calculateMD5(String(Num(eid.v)) \o String(pictureName))
                 keyCode  == CharCode(hashData[Len(hashData)])
             IN  IF eid.v > ThirdThreshold
                 THEN (keyCode % 10) * 2 + 2
                 ELSE (keyCode % 8) * 2 + 2

getSegmentationNum(epsId, scrambleId, pictureName) ==
    LET eid  == parseInt(epsId)
        sid0 == parseInt(scrambleId)
        sid  == IF sid0.nan \/ sid0.v = 0 \/ sid0.v <= 0
                THEN DefaultScrambleId ELSE sid0.v
    IN  IF isNaN(eid) THEN 0
        ELSE IF eid.v < sid THEN 0
        ELSE IF eid.v < SecondThreshold THEN 10
        ELSE LET hashData == calculateMD5(String(Num(eid.v)) \o String(pictureName))
                 keyCode  == CharCode(hashData[Len(hashData)])
             IN  IF eid.v > ThirdThreshold
                 THEN (keyCode % 8) * 2 + 2
                 ELSE (keyCode % 10) * 2 + 2

(* ------------------------------------------------------ the reconstructor *)
\* HTML's default size of a canvas element that has no width/height attribute
DefaultCanvasWidth  == 300
DefaultCanvasHeight == 150

\* a transparent canvas row; a drawn row is [img |-> token of the decoded
\* image, row |-> source row of that image]
Blank == [img |-> 0, row |-> 0]
BlankRows(h) == [r \in 1..h |-> Blank]

\* the remainder is added to the first block instead of the last
RECURSIVE BuildBlocksRemFirst(_, _, _, _, _, _)
BuildBlocksRemFirst(i, sliceCount, copyHeight, rem, totalH, blocks) ==
    IF i < sliceCount
    THEN LET h0 == copyHeight * (i + 1)
             h  == IF i = 0 THEN h0 + rem ELSE h0
         IN  BuildBlocksRemFirst(i + 1, sliceCount, copyHeight, rem, h,
                                 Append(blocks, <<totalH, h>>))
    ELSE blocks

RECURSIVE BuildBlocks(_, _, _, _, _, _)
\* the loop of cutImage that builds blocks[] (i counts 0..sliceCount-1)
BuildBlocks(i, sliceCount, copyHeight, rem, totalH, blocks) ==
    IF i < sliceCount
    THEN LET h0 == copyHeight * (i + 1)
             h  == IF i = sliceCount - 1 THEN h0 + rem ELSE h0
         IN  BuildBlocks(i + 1, sliceCount, copyHeight, rem, h,
                         Append(blocks, <<totalH, h>>))
    ELSE blocks

\* copyHeight as Math.ceil(height / sliceCount)
BlocksCeil(height, sliceCount) ==
    BuildBlocks(0, sliceCount, (height + sliceCount - 1) \div sliceCount,
                height % sliceCount, 0, <<>>)

\* the remainder is not added to the last block
BlocksNoRemainder(height, sliceCount) ==
    BuildBlocks(0, sliceCount, height \div sliceCount, 0, 0, <<>>)

Blocks(height, sliceCount) ==
    BuildBlocks(0, sliceCount, height \div sliceCount, height % sliceCount,
                0, <<>>)

\* context.drawImage(image, 0, sy, width, sh, 0, dy, width, sh) on full-width
\* rows: nothing is drawn for sh = 0, rows outside the image or the canvas
\* are clipped
drawImage(pixels, image, sy, sh, dy) ==
    IF sh <= 0 THEN pixels
    ELSE [r \in 1..Len(pixels) |->
            LET k == (r - 1) - dy
            IN  IF k \in 0..(sh - 1) /\ (sy + k) \in 0..(image.h - 1)
                THEN [img |-> image.tok, row |-> sy + k]
                ELSE pixels[r]]

\* the drawing loop running over the blocks from the first to the last
RECURSIVE DrawBlocksForward(_, _, _, _, _)
DrawBlocksForward(i, blocks, destY, image, pixels) ==
    IF i >= 0
    THEN LET j      == Len(blocks) - i
             start  == blocks[j][1]
             end    == blocks[j][2]
             sliceH == end - start
         IN  DrawBlocksForward(i - 1, blocks, destY + sliceH, image,
                               drawImage(pixels, image, start, sliceH, destY))
    ELSE [pixels |-> pixels, destY |-> destY]

\* the drawing loop of cutImage (i counts blocks.length-1 down to 0)
RECURSIVE DrawBlocks(_, _, _, _, _)
DrawBlocks(i, blocks, destY, image, pixels) ==
    IF i >= 0
    THEN LET start  == blocks[i + 1][1]
             end    == blocks[i + 1][2]
             sliceH == end - start
         IN  DrawBlocks(i - 1, blocks, destY + sliceH, image,
                        drawImage(pixels, image, start, sliceH, destY))
    ELSE [pixels |-> pixels, destY |-> destY]

\* cutImage without canvas.width = ..., canvas.height = ...: the canvas
\* keeps its size and its content, and the slices are drawn over it
cutImageKeepsSize(cv, image, sliceCount) ==
    IF ~cv.ref THEN cv
    ELSE IF sliceCount = 0 \/ sliceCount <= 1 THEN cv
         ELSE LET blocks == Blocks(cv.height, sliceCount)
                  drawn  == DrawBlocks(Len(blocks) - 1, blocks, 0, image,
                                       cv.pixels)
              IN  [cv EXCEPT !.pixels  = drawn.pixels,
                             !.display = "block"]

\* cutImage(image, sliceCount) applied to the canvas cv; image is
\* [tok, w, h]: the decoded image of the attempt tok
cutImage(cv, image, sliceCount) ==
    IF ~cv.ref THEN cv
    ELSE LET sized == [cv EXCEPT !.width  = image.w,
                                 !.height = image.h,
                                 !.pixels = BlankRows(image.h)]
         IN  IF sliceCount = 0 \/ sliceCount <= 1 THEN sized
             ELSE LET blocks == Blocks(sized.height, sliceCount)
                      drawn  == DrawBlocks(Len(blocks) - 1, blocks, 0, image,
                                           BlankRows(sized.height))
                  IN  [sized EXCEPT !.pixels  = drawn.pixels,
                                    !.display = "block"]

(* ------------------------------------------------- the component instance *)
\* props values the parent binds
S(s) == Str(s)
\* the sources are interchangeable: the instance is created with the first
\* and the other one is bound by a later change
MountSrc    == "/img/a"
Srcs        == {"/img/a", "/img/b"}
ComicIds    == { S(<<"x","5">>),                       \* not a number
                 S(<<"5","0","0","0","0","0">>) }      \* digest rule
ScrambleIds == { Undefined,                            \* default epoch
                 S(<<"6","0","0","0","0","0">>) }      \* a later epoch
Pages       == { <<"0","0","0","0","4",".","w","e","b","p">>,    \* 2 slices
                 <<"0","0","0","1","1",".","w","e","b","p">>,    \* 4 slices
                 <<"0","0","0","0","4",".","G","I","F">> }       \* animated

VARIABLES
    phase,          \* "created" | "mounted" | "unmounted"
    src, comicId, scrambleId, page,                   \* props
    loading, needDescramble, isVisible, observer, loadToken,   \* data()
    canvas,         \* the <canvas ref="canvas"> element
    inflight,       \* Image objects whose load has not settled, with the
                    \* variables their handlers captured
    captured,       \* history: myToken of every loadImage call, in order
    last,           \* history: the latest loadImage call and how it settled
    staleTokens,    \* history: tokens whose decode settled when stale
    staleAfter,     \* history: a decode settled stale after the latest
                    \*          attempt had settled
    gateFires,      \* history: number of loads the observer callback started
    cutLog,         \* history: the latest call of cutImage from onload
    \* the download-task state of the root component (data(), lines 304-307)
    showDownloadTaskModal, downloadTaskId, downloadTaskInfo,
    downloadTaskPoller,
    timers,         \* the ids of the setInterval timers that are active
    timerCount,     \* the number of setInterval calls so far
    posts,          \* POST /api/download/tasks requests awaiting a response
    fetches,        \* GET /api/download/tasks/<id> requests awaiting a
                    \* response, with the task id they were issued for
    probe           \* the inputs and the result of a direct application of
                    \* getSegmentationNum or cutImage (unused by Spec)

props == <<src, comicId, scrambleId, page>>
data  == <<loading, needDescramble, isVisible, observer, loadToken>>
hist  == <<captured, last, staleTokens, staleAfter, gateFires, cutLog>>
poll  == <<showDownloadTaskModal, downloadTaskId, downloadTaskInfo,
           downloadTaskPoller, timers, timerCount, posts, fetches>>
vars  == <<phase, props, data, canvas, inflight, hist, poll, probe>>

NoAttempt == [tok |-> 0, outcome |-> "none", n |-> 0, src |-> "", h |-> 0,
              afterFailure |-> FALSE]
NoCut     == [tok |-> 0, n |-> 0, page |-> <<>>, moved |-> FALSE]
NoProbe   == [stage |-> "none"]

\* downloadTaskPoller: null
NoTimer == 0
\* downloadTaskInfo: null
NoInfo == [task_id |-> "", status |-> ""]

\* data() of the root component: no download task, no poller
PollIdle ==
    /\ showDownloadTaskModal = FALSE
    /\ downloadTaskId = ""
    /\ downloadTaskInfo = NoInfo
    /\ downloadTaskPoller = NoTimer
    /\ timers = {}
    /\ timerCount = 0
    /\ posts = 0
    /\ fetches = {}

Init ==
    /\ phase = "created"
    /\ src = MountSrc /\ comicId \in ComicIds
    /\ scrambleId \in ScrambleIds /\ page \in Pages
    /\ loading = TRUE
    /\ needDescramble = FALSE
    /\ isVisible = FALSE
    /\ observer = "null"
    /\ loadToken = 0
    /\ canvas = [ref |-> FALSE, width |-> DefaultCanvasWidth,
                 height |-> DefaultCanvasHeight, display |-> "none",
                 pixels |-> BlankRows(DefaultCanvasHeight)]
    /\ inflight = {}
    /\ captured = <<>>
    /\ last = NoAttempt
    /\ staleTokens = {}
    /\ staleAfter = FALSE
    /\ gateFires = 0
    /\ cutLog = NoCut
    /\ PollIdle
    /\ probe = NoProbe

\* const myToken = ++this.loadToken
NewTokenStuck == loadToken
NewToken == loadToken + 1

\* the short-circuit is never taken: every request is decoded
NoTransformNever(sliceCount, pg) == FALSE

\* sliceCount <= 1 || /\.gif$/i.test(this.page)
NoTransform(sliceCount, pg) == sliceCount <= 1 \/ IsGif(pg)

\* loadImage() with the props s, c, sc, pg bound at the call
loadImage(s, c, sc, pg) ==
    LET myToken    == NewToken
        pageName   == BeforeFirstDot(pg)
        epsId      == parseInt(c)
        scrId      == parseInt(sc)
        sliceCount == getSegmentationNum(epsId, scrId, Str(pageName))
    IN  /\ loadToken' = myToken
        /\ captured' = Append(captured, myToken)
        /\ staleAfter' = FALSE
        /\ IF NoTransform(sliceCount, pg)
           THEN /\ loading' = FALSE
                /\ needDescramble' = FALSE
                /\ inflight' = inflight
                /\ last' = [tok |-> myToken, outcome |-> "original",
                            n |-> sliceCount, src |-> s, h |-> 0,
                            afterFailure |-> last.outcome = "failed"]
           ELSE /\ loading' = TRUE
                /\ needDescramble' = TRUE
                /\ inflight' = inflight \cup
                       {[myToken |-> myToken, sliceCount |-> sliceCount,
                         src |-> s, page |-> pg]}
                /\ last' = [tok |-> myToken, outcome |-> "pending",
                            n |-> sliceCount, src |-> s, h |-> 0,
                            afterFailure |-> last.outcome = "failed"]

\* mounted(): the observer is created and observes the container
mounted ==
    /\ UNCHANGED <<probe, poll>>
    /\ phase = "created"
    /\ phase' = "mounted"
    /\ observer' = "observing"
    /\ canvas' = [canvas EXCEPT !.ref = TRUE]
    /\ UNCHANGED <<props, loading, needDescramble, isVisible, loadToken,
                   inflight, hist>>

\* the IntersectionObserver callback, delivered while the observer observes
ObserverCallbackNoDisconnect(isIntersecting) ==
    /\ UNCHANGED <<probe, poll>>
    /\ observer = "observing"
    /\ IF isIntersecting
       THEN /\ loadToken < MaxLoads
            /\ isVisible' = TRUE
            /\ loadImage(src, comicId, scrambleId, page)
            /\ observer' = observer
            /\ gateFires' = gateFires + 1
            /\ UNCHANGED <<phase, props, canvas, staleTokens, cutLog>>
       ELSE UNCHANGED vars

ObserverCallback(isIntersecting) ==
    /\ UNCHANGED <<probe, poll>>
    /\ observer = "observing"
    /\ IF isIntersecting
       THEN /\ isVisible' = TRUE
            /\ loadImage(src, comicId, scrambleId, page)
            /\ observer' = "disconnected"
            /\ gateFires' = gateFires + 1
            /\ UNCHANGED <<phase, props, canvas, staleTokens, cutLog>>
       ELSE UNCHANGED vars

\* beforeUnmount(), then the unmount: the template refs are cleared and
\* the watcher is stopped
beforeUnmountNoDisconnect ==
    /\ UNCHANGED <<probe, poll>>
    /\ phase = "mounted"
    /\ phase' = "unmounted"
    /\ observer' = observer
    /\ canvas' = [canvas EXCEPT !.ref = FALSE]
    /\ UNCHANGED <<props, loading, needDescramble, isVisible, loadToken,
                   inflight, hist>>

beforeUnmount ==
    /\ UNCHANGED <<probe, poll>>
    /\ phase = "mounted"
    /\ phase' = "unmounted"
    /\ observer' = IF observer # "null" THEN "disconnected" ELSE observer
    /\ canvas' = [canvas EXCEPT !.ref = FALSE]
    /\ UNCHANGED <<props, loading, needDescramble, isVisible, loadToken,
                   inflight, hist>>

\* watch.src without if (this.isVisible): every change of src loads
propsUpdateUngated(s, c, sc, pg) ==
    /\ UNCHANGED <<probe, poll>>
    /\ phase = "mounted"
    /\ <<s, c, sc, pg>> # props
    /\ src' = s /\ comicId' = c /\ scrambleId' = sc /\ page' = pg
    /\ IF s # src
       THEN /\ loadToken < MaxLoads
            /\ loadImage(s, c, sc, pg)
            /\ UNCHANGED <<phase, isVisible, observer, canvas,
                           staleTokens, gateFires, cutLog>>
       ELSE UNCHANGED <<phase, data, canvas, inflight, hist>>

\* the parent re-binds the props; watch.src runs when src has changed
propsUpdate(s, c, sc, pg) ==
    /\ UNCHANGED <<probe, poll>>
    /\ phase = "mounted"
    /\ <<s, c, sc, pg>> # props
    /\ src' = s /\ comicId' = c /\ scrambleId' = sc /\ page' = pg
    /\ IF s # src /\ isVisible
       THEN /\ loadToken < MaxLoads
            /\ loadImage(s, c, sc, pg)
            /\ UNCHANGED <<phase, isVisible, observer, canvas,
                           staleTokens, gateFires, cutLog>>
       ELSE UNCHANGED <<phase, data, canvas, inflight, hist>>

\* the token test of img.onload inverted (===)
OnLoadStaleInverted(myToken) == myToken = loadToken

\* if (myToken !== this.loadToken) return;   in img.onload / img.onerror
OnLoadStaleNever(myToken) == FALSE
OnLoadStale(myToken) == myToken # loadToken

OnErrorStaleNever(myToken) == FALSE
OnErrorStale(myToken) == myToken # loadToken

\* history of a settled decode: the outcome of the current attempt, or
\* the token of a stale one
Settle(a, outcome, h) ==
    IF a.myToken = loadToken
    THEN /\ last' = [last EXCEPT !.outcome = outcome, !.h = h]
         /\ UNCHANGED <<staleTokens, staleAfter>>
    ELSE /\ staleTokens' = staleTokens \cup {a.myToken}
         /\ staleAfter' = (staleAfter \/ last.outcome # "pending")
         /\ last' = last

\* img.onload computing the slice count again, from the props bound when
\* the decode completes
imgOnloadCurrentProps(a, w, h) ==
    LET sliceCount == getSegmentationNum(parseInt(comicId),
                                         parseInt(scrambleId),
                                         Str(BeforeFirstDot(page)))
    IN  /\ UNCHANGED <<probe, poll>>
        /\ a \in inflight
        /\ inflight' = inflight \ {a}
        /\ IF OnLoadStale(a.myToken)
           THEN UNCHANGED <<canvas, loading, cutLog>>
           ELSE /\ canvas' = cutImage(canvas,
                                      [tok |-> a.myToken, w |-> w, h |-> h],
                                      sliceCount)
                /\ loading' = FALSE
                /\ cutLog' = [tok |-> a.myToken, n |-> sliceCount,
                              page |-> a.page, moved |-> page # a.page]
        /\ Settle(a, "reconstructed", h)
        /\ UNCHANGED <<phase, props, needDescramble, isVisible, observer,
                       loadToken, captured, gateFires>>

\* img.onload of the in-flight image a, decoded as a w x h raster
imgOnload(a, w, h) ==
    /\ UNCHANGED <<probe, poll>>
    /\ a \in inflight
    /\ inflight' = inflight \ {a}
    /\ IF OnLoadStale(a.myToken)
       THEN UNCHANGED <<canvas, loading, cutLog>>
       ELSE /\ canvas' = cutImage(canvas,
                                  [tok |-> a.myToken, w |-> w, h |-> h],
                                  a.sliceCount)
            /\ loading' = FALSE
            /\ cutLog' = [tok |-> a.myToken, n |-> a.sliceCount,
                          page |-> a.page, moved |-> page # a.page]
    /\ Settle(a, "reconstructed", h)
    /\ UNCHANGED <<phase, props, needDescramble, isVisible, observer,
                   loadToken, captured, gateFires>>

\* img.onerror of the in-flight image a
imgOnerrorRetry(a) ==
    /\ UNCHANGED <<probe, poll>>
    /\ a \in inflight
    /\ IF OnErrorStale(a.myToken)
       THEN /\ inflight' = inflight \ {a}
            /\ Settle(a, "failed", 0)
            /\ UNCHANGED <<loadToken, captured>>
       ELSE /\ loadToken < MaxLoads
            /\ loadToken' = loadToken + 1
            /\ captured' = Append(captured, loadToken + 1)
            /\ inflight' = (inflight \ {a}) \cup
                              {[a EXCEPT !.myToken = loadToken + 1]}
            /\ last' = [last EXCEPT !.tok = loadToken + 1,
                                    !.afterFailure = TRUE]
            /\ UNCHANGED <<staleTokens, staleAfter>>
    /\ UNCHANGED <<phase, props, loading, needDescramble, isVisible,
                   observer, canvas, gateFires, cutLog>>

imgOnerror(a) ==
    /\ UNCHANGED <<probe, poll>>
    /\ a \in inflight
    /\ inflight' = inflight \ {a}
    /\ IF OnErrorStale(a.myToken)
       THEN UNCHANGED <<needDescramble, loading>>
       ELSE /\ needDescramble' = FALSE
            /\ loading' = FALSE
    /\ Settle(a, "failed", 0)
    /\ UNCHANGED <<phase, props, isVisible, observer, loadToken, canvas,
                   captured, gateFires, cutLog>>

Next ==
    \/ mounted
    \/ \E b \in BOOLEAN : ObserverCallback(b)
    \/ beforeUnmount
    \/ \E s \in Srcs, c \in ComicIds, sc \in ScrambleIds, pg \in Pages :
          propsUpdate(s, c, sc, pg)
    \/ \E a \in inflight, w \in 1..MaxW, h \in 0..MaxH : imgOnload(a, w, h)
    \/ \E a \in inflight : imgOnerror(a)

Spec == Init /\ [][Next]_vars

\* the decode of an Image in flight settles: the browser fires its load or
\* its error event
DecodeSettles ==
    \E a \in inflight :
        \/ \E w \in 1..MaxW, h \in 0..MaxH : imgOnload(a, w, h)
        \/ imgOnerror(a)

\* the state machine when every decode that was issued settles
SpecSettling == Init /\ [][Next]_vars /\ WF_vars(DecodeSettles)

(* --------------------------- direct applications of the pure functions *)
\* a mounted instance on which no handler runs
Quiescent ==
    /\ phase = "mounted"
    /\ src = "/img/a"
    /\ comicId = S(<<"5","0","0","0","0","0">>)
    /\ scrambleId = Undefined
    /\ page = <<"0","0","0","0","4",".","w","e","b","p">>
    /\ loading = TRUE
    /\ needDescramble = FALSE
    /\ isVisible = FALSE
    /\ observer = "observing"
    /\ loadToken = 0
    /\ canvas = [ref |-> TRUE, width |-> DefaultCanvasWidth,
                 height |-> DefaultCanvasHeight, display |-> "none",
                 pixels |-> BlankRows(DefaultCanvasHeight)]
    /\ inflight = {}
    /\ captured = <<>>
    /\ last = NoAttempt
    /\ staleTokens = {}
    /\ staleAfter = FALSE
    /\ gateFires = 0
    /\ cutLog = NoCut
    /\ PollIdle

\* the identifiers getSegmentationNum is applied to: decimal strings and
\* numbers (n: the integer they denote) and values that are no integer
SegIdValues == {200000, 220979, 220980, 250000, 268849, 268850, 300000,
                421926, 421927, 500000}
SegIds ==
    {[js |-> Str(NatToString(n)), kind |-> "int", n |-> n] : n \in SegIdValues}
    \cup {[js |-> Num(n), kind |-> "int", n |-> n] : n \in {250000, 500000}}
    \cup {[js |-> v, kind |-> "unparseable", n |-> 0] :
             v \in {Undefined, NaN, Str(<<>>), Str(<<"x","5">>)}}

SegEpochs ==
    {[js |-> Str(NatToString(n)), kind |-> "positive", n |-> n] :
         n \in {1, 250000, 300000, 600000}}
    \cup {[js |-> Undefined, kind |-> "absent", n |-> 0],
          [js |-> Str(<<"a","b","c">>), kind |-> "non-numeric", n |-> 0],
          [js |-> Str(<<"0">>), kind |-> "nonpositive", n |-> 0],
          [js |-> Str(<<"-","5">>), kind |-> "nonpositive", n |-> -5]}

SegPageNames ==
    { <<"0","0","0","0","1">>,
      <<"0","0","0","0","2">>,
      <<"0","0","0","0","3">>,
      <<"0","0","0","0","4">>,
      <<"0","0","0","0","5">>,
      <<"0","0","0","0","6">>,
      <<"0","0","0","0","8">>,
      <<"0","0","0","0","9">>,
      <<"0","0","0","1","0">>,
      <<"0","0","0","1","1">>,
      <<"0","0","0","1","2">>,
      <<"0","0","0","1","3">>,
      <<"0","0","0","1","4">>,
      <<"0","0","0","1","5">>,
      <<"0","0","0","1","6">>,
      <<"0","0","0","1","7">>,
      <<"0","0","0","1","8">>,
      <<"0","0","0","1","9">>,
      <<"0","0","0","2","0">>,
      <<"0","0","0","2","1">>,
      <<"0","0","0","2","2">>,
      <<"0","0","0","2","3">>,
      <<"0","0","0","2","5">>,
      <<"0","0","0","2","6">>,
      <<"0","0","0","2","8">>,
      <<"0","0","0","3","2">>,
      <<"0","0","0","3","4">>,
      <<"0","0","0","3","5">>,
      <<"0","0","0","4","1">>,
      <<"0","0","0","4","2">>,
      <<"0","0","0","4","3">>,
      <<"0","0","0","4","7">>,
      <<"0","0","0","5","1">>,
      <<"0","0","0","5","7">>,
      <<"0","0","0","7","8">> }

\* the digest of s is in MD5Table
DigestKnown(s) == \E e \in MD5Table : e[1] = s

SegInputs ==
    {in \in [id : SegIds, epoch : SegEpochs, name : SegPageNames] :
        \/ in.id.kind = "int" /\ in.id.n < SecondThreshold
        \/ DigestKnown(String(parseInt(in.id.js)) \o in.name)}

InitSeg ==
    /\ Quiescent
    /\ \E in \in SegInputs :
          probe = [stage |-> "input", id |-> in.id, epoch |-> in.epoch,
                   name |-> in.name, out |-> -1, noTransform |-> FALSE]

\* getSegmentationNum applied to the identifiers, and the decision of
\* loadImage (lines 64-68) for the page name.jpg
segStep ==
    /\ probe.stage = "input"
    /\ LET pg         == probe.name \o <<".","j","p","g">>
           pageName   == BeforeFirstDot(pg)
           epsId      == parseInt(probe.id.js)
           scrId      == parseInt(probe.epoch.js)
           sliceCount == getSegmentationNum(epsId, scrId, Str(pageName))
       IN  probe' = [probe EXCEPT
                       !.stage = "done",
                       !.out = getSegmentationNum(probe.id.js, probe.epoch.js,
                                                  Str(probe.name)),
                       !.noTransform = NoTransform(sliceCount, pg)]
    /\ UNCHANGED <<phase, props, data, canvas, inflight, hist, poll>>

NextSeg == segStep

SpecSeg == InitSeg /\ [][NextSeg]_vars

CutHeights == (0..MaxCutH) \cup {300}
CutSlices  == 2..MaxSlices

InitCut ==
    /\ Quiescent
    /\ probe = [stage |-> "input", tok |-> 0, H |-> 0, W |-> 0, n |-> 0,
                blocks |-> <<>>, destY |-> 0]

\* cutImage applied to a decoded w x h image and a slice count n
cutStep(w, h, n) ==
    /\ probe.tok < MaxCuts
    /\ LET image  == [tok |-> probe.tok + 1, w |-> w, h |-> h]
           blocks == Blocks(h, n)
       IN  /\ canvas' = cutImage(canvas, image, n)
           /\ probe' = [stage |-> "cut", tok |-> probe.tok + 1, H |-> h,
                        W |-> w, n |-> n, blocks |-> blocks,
                        destY |-> DrawBlocks(Len(blocks) - 1, blocks, 0, image,
                                             BlankRows(h)).destY]
    /\ UNCHANGED <<phase, props, data, inflight, hist, poll>>

NextCut == \E w \in 1..MaxW, h \in CutHeights, n \in CutSlices : cutStep(w, h, n)

SpecCut == InitCut /\ [][NextCut]_vars

(* ------------------------------------- download-task polling (root app) *)
\* the task ids the server hands out and the states it reports for a task
TaskIds == {"t1", "t2"}
TaskStatuses == {"queued", "running", "completed", "failed"}

\* the responses that carry json.data about the task id
TaskData(id) ==
    {[kind |-> "data", task_id |-> id, status |-> st] : st \in TaskStatuses}

\* a failed request (network error, !res.ok, or json.st other than 1001)
\* and a response without json.data
Failure == [kind |-> "error"]
NoData  == [kind |-> "nodata"]

\* what a request can come back with
PostResponses == {Failure, NoData} \cup UNION {TaskData(id) : id \in TaskIds}
FetchResponses(id) == {Failure, NoData} \cup TaskData(id)

\* json.data || null
DataOf(r) == IF r = NoData THEN NoInfo
             ELSE [task_id |-> r.task_id, status |-> r.status]

\* closeDownloadTaskModal()
closeDownloadTaskModal ==
    /\ showDownloadTaskModal' = FALSE
    /\ IF downloadTaskPoller # NoTimer
       THEN /\ timers' = timers \ {downloadTaskPoller}
            /\ downloadTaskPoller' = NoTimer
       ELSE UNCHANGED <<timers, downloadTaskPoller>>
    /\ UNCHANGED <<downloadTaskId, downloadTaskInfo, timerCount, posts,
                   fetches>>
    /\ UNCHANGED <<phase, props, data, canvas, inflight, hist, probe>>

\* startDownloadTaskPolling(): the poller is cleared, if there is one, and
\* a new interval is set
startDownloadTaskPolling ==
    LET cleared == IF downloadTaskPoller # NoTimer
                   THEN timers \ {downloadTaskPoller}
                   ELSE timers
        id      == timerCount + 1
    IN  /\ timers' = cleared \cup {id}
        /\ downloadTaskPoller' = id
        /\ timerCount' = id

\* downloadSelected() up to its await: hasAlbum and chapters stand for
\* this.selectedAlbum and this.selectedChapters.length, which the handlers
\* of the album view set
downloadSelected(hasAlbum, chapters) ==
    /\ IF ~hasAlbum \/ chapters = 0
       THEN UNCHANGED poll
       ELSE /\ posts < MaxPending
            /\ showDownloadTaskModal' = TRUE
            /\ downloadTaskInfo' = [task_id |-> "", status |-> "queued"]
            /\ posts' = posts + 1
            /\ UNCHANGED <<downloadTaskId, downloadTaskPoller, timers,
                           timerCount, fetches>>
    /\ UNCHANGED <<phase, props, data, canvas, inflight, hist, probe>>

\* downloadSelected() after its await: the response r of the POST
downloadSelectedResume(r) ==
    /\ posts > 0
    /\ posts' = posts - 1
    /\ IF r = Failure
       THEN UNCHANGED <<showDownloadTaskModal, downloadTaskId,
                        downloadTaskInfo, downloadTaskPoller, timers,
                        timerCount, fetches>>
       ELSE /\ timerCount < MaxTimers
            /\ downloadTaskInfo' = DataOf(r)
            /\ downloadTaskId' = DataOf(r).task_id
            /\ startDownloadTaskPolling
            /\ UNCHANGED <<showDownloadTaskModal, fetches>>
    /\ UNCHANGED <<phase, props, data, canvas, inflight, hist, probe>>

\* the callback of the interval timer: fetchDownloadTask() up to its
\* await (one request for a task awaits its response at a time)
fetchDownloadTask(timer) ==
    /\ timer \in timers
    /\ IF downloadTaskId = ""
       THEN UNCHANGED fetches
       ELSE /\ Cardinality(fetches) < MaxPending
            /\ [id |-> downloadTaskId, timer |-> timer] \notin fetches
            /\ fetches' = fetches \cup
                              {[id |-> downloadTaskId, timer |-> timer]}
    /\ UNCHANGED <<showDownloadTaskModal, downloadTaskId, downloadTaskInfo,
                   downloadTaskPoller, timers, timerCount, posts>>
    /\ UNCHANGED <<phase, props, data, canvas, inflight, hist, probe>>

\* fetchDownloadTask() after its await: the response r to the request f
fetchDownloadTaskResume(f, r) ==
    /\ f \in fetches
    /\ fetches' = fetches \ {f}
    /\ IF r = Failure
       THEN UNCHANGED <<downloadTaskInfo, downloadTaskPoller, timers>>
       ELSE LET info   == DataOf(r)
                status == info.status
            IN  /\ downloadTaskInfo' = info
                /\ IF status \in {"completed", "failed"}
                      /\ downloadTaskPoller # NoTimer
                   THEN /\ timers' = timers \ {downloadTaskPoller}
                        /\ downloadTaskPoller' = NoTimer
                   ELSE UNCHANGED <<downloadTaskPoller, timers>>
    /\ UNCHANGED <<showDownloadTaskModal, downloadTaskId, timerCount, posts>>
    /\ UNCHANGED <<phase, props, data, canvas, inflight, hist, probe>>

InitPoll == Quiescent /\ probe = NoProbe

NextPoll ==
    \/ closeDownloadTaskModal
    \/ \E hasAlbum \in BOOLEAN, chapters \in 0..1 :
          downloadSelected(hasAlbum, chapters)
    \/ \E r \in PostResponses : downloadSelectedResume(r)
    \/ \E timer \in timers : fetchDownloadTask(timer)
    \/ \E f \in fetches : \E r \in FetchResponses(f.id) :
          fetchDownloadTaskResume(f, r)

SpecPoll == InitPoll /\ [][NextPoll]_vars

TypeOK ==
    /\ phase \in {"created", "mounted", "unmounted"}
    /\ loading \in BOOLEAN /\ needDescramble \in BOOLEAN
    /\ isVisible \in BOOLEAN
    /\ observer \in {"null", "observing", "disconnected"}
    /\ loadToken \in 0..MaxLoads
    /\ Len(canvas.pixels) = canvas.height

(* ------------------------------------------------ what the template shows *)
\* <div v-if="loading && isVisible"> (the spinner)
SpinnerShown == loading /\ isVisible
\* <img v-if="!needDescramble && !loading && isVisible" :src="src">
ImgShown == ~needDescramble /\ ~loading /\ isVisible
\* <canvas style="display: none;">, switched by canvas.style.display = 'block'
CanvasShown == canvas.display = "block"

CanvasTokens == {canvas.pixels[r].img : r \in 1..Len(canvas.pixels)} \ {0}

(* ----------------------------------------------------------------- claims *)

\* C1: when an earlier attempt's decode settles after the latest attempt has
\* settled, the mounted instance shows exactly the latest attempt's outcome
\* (its reconstructed raster, the untransformed image, or the failure state)
\* and no canvas row drawn by an attempt that settled stale.
C1_LastStartWins ==
    (phase = "mounted" /\ staleAfter) =>
        /\ last.tok = loadToken
        /\ CanvasTokens \cap staleTokens = {}
        /\ ~loading
        /\ CASE last.outcome = "reconstructed" ->
                    /\ needDescramble
                    /\ CanvasShown
                    /\ canvas.height = last.h
                    /\ CanvasTokens \subseteq {last.tok}
             [] last.outcome = "original" -> ~needDescramble
             [] last.outcome = "failed"   -> ~needDescramble
             [] OTHER -> FALSE

\* C1 witness: the first of two attempts settled after the second, which
\* had reconstructed a raster of positive height.
C1_Witness ==
    /\ phase = "mounted" /\ staleAfter
    /\ last.outcome = "reconstructed" /\ last.h > 0
    /\ (last.tok - 1) \in staleTokens

\* C2: a decode completion of an attempt whose token differs from loadToken
\* leaves loading, needDescramble and the canvas (contents, dimensions,
\* visibility) unchanged.
C2_StaleCompletionDiscarded ==
    [][ (\E a \in inflight :
            a.myToken # loadToken /\ inflight' = inflight \ {a})
        => UNCHANGED <<loading, needDescramble, canvas, isVisible>> ]_vars

\* C2 witness: two attempts have settled stale while a third is in flight.
C2_Witness ==
    /\ Cardinality(staleTokens) >= 2
    /\ loading /\ needDescramble
    /\ \E a \in inflight : a.myToken = loadToken

\* C3: loadToken never decreases; every loadImage call, the short-circuiting
\* ones included, increments it by exactly one and captures the new value,
\* so the captured tokens are pairwise distinct; nothing else changes it.
C3_TokenMonotonic ==
    [][ /\ loadToken' >= loadToken
        /\ (Len(captured') # Len(captured)) =>
              /\ loadToken' = loadToken + 1
              /\ captured' = Append(captured, loadToken')
        /\ (loadToken' # loadToken) => Len(captured') = Len(captured) + 1
        /\ \A i, j \in 1..Len(captured') :
              i # j => captured'[i] # captured'[j] ]_vars

\* C3 witness: the latest of several loadImage calls short-circuited to
\* "no transform" while an earlier attempt is still in flight.
C3_Witness ==
    /\ Len(captured) >= 2
    /\ last.tok = loadToken /\ last.outcome = "original"
    /\ inflight # {}

\* C4: the observer callback starts a load at most once; once it has, the
\* observer is detached.
C4_GateOneShot ==
    /\ gateFires <= 1
    /\ (gateFires = 1) => (observer = "disconnected" /\ isVisible)
    /\ (gateFires = 0) => (~isVisible /\ loadToken = 0)

\* C4 witness: the gate has fired and the instance is still mounted.
C4_Witness == gateFires = 1 /\ phase = "mounted" /\ loadToken >= 2

\* C5: after teardown the observer is detached, whether or not it fired.
C5_DetachedAfterTeardown ==
    (phase = "unmounted") => (observer = "disconnected")

\* C5 witness: an instance torn down before its gate ever fired.
C5_Witness == phase = "unmounted" /\ gateFires = 0 /\ ~isVisible

\* C6 (as claimed): whenever src, comicId, scrambleId or page of a visible
\* instance changes, a new load attempt is started directly.
C6_AnyIdentifierChangeStartsLoad ==
    [][ (phase = "mounted" /\ isVisible /\ props' # props)
        => (loadToken' = loadToken + 1 /\ last'.tok = loadToken') ]_vars

\* C7 (as claimed): after a decode failure of the current attempt the
\* instance is marked failed with loading complete and no reconstructed
\* raster is displayed.
C7_FailureShowsNothingTransformed ==
    (phase = "mounted" /\ last.outcome = "failed") =>
        (~loading /\ ~needDescramble /\ ~CanvasShown)

\* C8: a decode failure starts no new attempt; after it loadToken changes
\* only by a change of src, and a change of src on the visible instance
\* does start a fresh attempt.
C8_FailureIsTerminal ==
    [][ /\ (last'.outcome = "failed" /\ last.outcome # "failed") =>
              (loadToken' = loadToken /\ inflight' \subseteq inflight)
        /\ (last'.tok # last.tok /\ last'.afterFailure) =>
              (src' # src /\ loadToken' = loadToken + 1)
        /\ (last.outcome = "failed") =>
              /\ (loadToken' # loadToken \/ ~(inflight' \subseteq inflight)) =>
                    (src' # src /\ loadToken' = loadToken + 1)
              /\ (phase = "mounted" /\ isVisible /\ src' # src) =>
                    (loadToken' = loadToken + 1 /\ last'.tok = loadToken'
                     /\ last'.outcome \in {"pending", "original"}) ]_vars

\* C8 witness: the attempt started by a source change after a failed
\* attempt has reconstructed its raster.
C8_Witness ==
    /\ last.afterFailure /\ last.outcome = "reconstructed"
    /\ last.tok = loadToken /\ phase = "mounted" /\ last.h > 0

\* C9 (as claimed): exactly one of the statuses loading, showing-original,
\* showing-reconstructed, failed describes a visible instance, failed being
\* the state after a decode failure of the current attempt.
C9_ExactlyOneOfFourStatuses ==
    (phase = "mounted" /\ isVisible) =>
        Cardinality({ s \in {"loading", "showing-original",
                             "showing-reconstructed", "failed"} :
            CASE s = "loading"               -> SpinnerShown
              [] s = "showing-original"      -> ImgShown
              [] s = "showing-reconstructed" -> CanvasShown
              [] s = "failed"                -> last.outcome = "failed" }) = 1

\* the page name ends in .gif in any mix of upper and lower case
EndsInDotGif(pg) ==
    /\ Len(pg) >= 4
    /\ \E g \in {"g", "G"}, i \in {"i", "I"}, f \in {"f", "F"} :
          SubSeq(pg, Len(pg) - 3, Len(pg)) = <<".", g, i, f>>

\* C10: cutImage is called only for an attempt whose slice count is >= 2 and
\* whose page name does not end in .gif (in any case).
C10_ReconstructorOnlyForScrambled ==
    (cutLog # NoCut) => (cutLog.n >= 2 /\ ~EndsInDotGif(cutLog.page))

\* C10 witness: cutImage has run for an earlier page, and the latest attempt,
\* for a .GIF page whose computed slice count is >= 2, was not transformed.
C10_Witness ==
    /\ cutLog # NoCut
    /\ EndsInDotGif(page) /\ last.n >= 2 /\ last.outcome = "original"
    /\ last.tok = loadToken /\ inflight = {}

(* ------------------------------------- claims about the segmentation rule *)
\* the epoch the rule is claimed to compare with: the supplied one when it
\* is a positive integer, the baseline otherwise
ClaimedEpoch ==
    IF probe.epoch.kind = "positive" THEN probe.epoch.n ELSE 220980

SegDone == probe.stage = "done"
SegInt  == SegDone /\ probe.id.kind = "int"

\* the last character of the digest of decimal(numericId) + pageBaseName
LastDigestChar ==
    LET d == calculateMD5(NatToString(probe.id.n) \o probe.name)
    IN  d[Len(d)]

HexDigits == <<"0","1","2","3","4","5","6","7","8","9","a","b","c","d","e","f">>
\* the value 0..15 of a hexadecimal character
HexValue(c) == (CHOOSE i \in 1..16 : HexDigits[i] = c) - 1
\* the character code of a hexadecimal character: 48..57, 97..102
AsciiCode(c) == IF HexValue(c) < 10 THEN 48 + HexValue(c) ELSE 87 + HexValue(c)

\* C11: when numericId is no integer the rule returns 0 for every epochId
\* and page name, and loadImage takes the no-transform path.
C11_UnparseableIdGivesZero ==
    (SegDone /\ probe.id.kind = "unparseable") =>
        (probe.out = 0 /\ probe.noTransform)

\* C11 witness: the rule has been applied to the identifier "x5" with a
\* supplied positive epoch.
C11_Witness ==
    /\ SegDone /\ probe.id.js = Str(<<"x","5">>)
    /\ probe.epoch.kind = "positive" /\ probe.out = 0

\* C12: for every integer numericId below the effective epoch (the supplied
\* epochId when positive, 220980 when absent, non-numeric or <= 0) the rule
\* returns 0.
C12_BelowEpochGivesZero ==
    (SegInt /\ probe.id.n < ClaimedEpoch) => probe.out = 0

\* C12 witness: numericId 200000 with the epochId "-5", which is replaced
\* by the baseline.
C12_Witness ==
    /\ SegInt /\ probe.id.n = 200000
    /\ probe.epoch.kind = "nonpositive" /\ probe.epoch.n = -5
    /\ probe.out = 0

\* C13: for every integer numericId with effective epoch <= numericId <
\* 268850 the rule returns 10, for every page name.
C13_FirstRegimeGivesTen ==
    (SegInt /\ ClaimedEpoch <= probe.id.n /\ probe.id.n < 268850) =>
        probe.out = 10

\* C13 witness: numericId equal to the supplied epoch 250000.
C13_Witness ==
    /\ SegInt /\ probe.id.n = 250000
    /\ probe.epoch.kind = "positive" /\ probe.epoch.n = 250000
    /\ probe.out = 10

EvenUpTo(m) == {2 * k : k \in 1..(m \div 2)}

\* C14 (as claimed): for 268850 <= numericId <= 421926 and every epochId
\* the rule returns an even integer in {2,...,20}.
C14_SecondRegimeRangeAnyEpoch ==
    (SegInt /\ 268850 <= probe.id.n /\ probe.id.n <= 421926) =>
        probe.out \in EvenUpTo(20)

\* C14 (amended): for 268850 <= numericId <= 421926 and every epochId whose
\* effective epoch is <= numericId the rule returns an even integer in
\* {2,...,20}.
C14_SecondRegimeRange ==
    (SegInt /\ 268850 <= probe.id.n /\ probe.id.n <= 421926
            /\ ClaimedEpoch <= probe.id.n) =>
        probe.out \in EvenUpTo(20)

\* C14 witness: the largest value, 20, at the boundary 421926.
C14_Witness ==
    /\ SegInt /\ probe.id.n = 421926 /\ ClaimedEpoch <= probe.id.n
    /\ probe.out = 20

\* C15 (as claimed): for numericId > 421926 and every epochId the rule
\* returns an even integer in {2,...,16}.
C15_ThirdRegimeRangeAnyEpoch ==
    (SegInt /\ probe.id.n > 421926) => probe.out \in EvenUpTo(16)

\* C15 (amended): for numericId > 421926 and every epochId whose effective
\* epoch is <= numericId the rule returns an even integer in {2,...,16}.
C15_ThirdRegimeRange ==
    (SegInt /\ probe.id.n > 421926 /\ ClaimedEpoch <= probe.id.n) =>
        probe.out \in EvenUpTo(16)

\* C15 witness: the largest value, 16, at the boundary 421927.
C15_Witness ==
    /\ SegInt /\ probe.id.n = 421927 /\ ClaimedEpoch <= probe.id.n
    /\ probe.out = 16

\* C16 (as claimed): for numericId > 421926 at or above the epoch the rule
\* returns (v mod 8) * 2 + 2, v the value 0..15 of the last hexadecimal
\* character of the digest.
C16_ThirdRegimeByHexValue ==
    (SegInt /\ probe.id.n > 421926 /\ ClaimedEpoch <= probe.id.n) =>
        probe.out = (HexValue(LastDigestChar) % 8) * 2 + 2

\* C16 (amended): for numericId > 421926 at or above the epoch the rule
\* returns (c mod 8) * 2 + 2, c the character code of the last hexadecimal
\* character of the digest (48..57 for 0-9, 97..102 for a-f); a digest
\* ending in 'a' at numericId 500000 gives 4.
C16_ThirdRegimeByCharCode ==
    (SegInt /\ probe.id.n > 421926 /\ ClaimedEpoch <= probe.id.n) =>
        /\ probe.out = (AsciiCode(LastDigestChar) % 8) * 2 + 2
        /\ (probe.id.n = 500000 /\ LastDigestChar = "a") => probe.out = 4

\* C16 witness: numericId 500000 with a digest ending in 'a'.
C16_Witness ==
    /\ SegInt /\ probe.id.n = 500000 /\ ClaimedEpoch <= probe.id.n
    /\ LastDigestChar = "a" /\ probe.out = 4

\* C17 (as claimed): for 268850 <= numericId <= 421926 at or above the
\* epoch the rule returns (v mod 10) * 2 + 2, v the value 0..15 of the last
\* hexadecimal character of the digest.
C17_SecondRegimeByHexValue ==
    (SegInt /\ 268850 <= probe.id.n /\ probe.id.n <= 421926
            /\ ClaimedEpoch <= probe.id.n) =>
        probe.out = (HexValue(LastDigestChar) % 10) * 2 + 2

\* C17 (amended): for 268850 <= numericId <= 421926 at or above the epoch
\* the rule returns (c mod 10) * 2 + 2, c the character code of the last
\* hexadecimal character of the digest (48..57 for 0-9, 97..102 for a-f).
C17_SecondRegimeByCharCode ==
    (SegInt /\ 268850 <= probe.id.n /\ probe.id.n <= 421926
            /\ ClaimedEpoch <= probe.id.n) =>
        probe.out = (AsciiCode(LastDigestChar) % 10) * 2 + 2

\* C17 witness: numericId 300000 with a digest ending in '0' (code 48)
\* gives 18.
C17_Witness ==
    /\ SegInt /\ probe.id.n = 300000 /\ ClaimedEpoch <= probe.id.n
    /\ LastDigestChar = "0" /\ probe.out = 18

(* --------------------------------------- claims about the reconstructor *)
CutDone == probe.stage = "cut"

BlockHeight(b) == b[2] - b[1]

\* the sum of the heights of the blocks after the i-th (i counts from 1)
RECURSIVE HeightsAfter(_, _)
HeightsAfter(blocks, i) ==
    IF i >= Len(blocks) THEN 0
    ELSE BlockHeight(blocks[i + 1]) + HeightsAfter(blocks, i + 1)

\* C18: with base = floor(H / n) the blocks are [base*i, base*(i+1)) for
\* i < n-1 and [base*(n-1), H) for the last; they are contiguous from 0 to
\* H and their heights sum to H.
C18_BlocksPartitionHeight ==
    CutDone =>
        LET H    == probe.H
            n    == probe.n
            b    == probe.blocks
            base == H \div n
        IN  /\ Len(b) = n
            /\ \A i \in 0..(n - 2) : b[i + 1] = <<base * i, base * (i + 1)>>
            /\ b[n] = <<base * (n - 1), H>>
            /\ b[1][1] = 0
            /\ \A i \in 1..(n - 1) : b[i + 1][1] = b[i][2]
            /\ BlockHeight(b[1]) + HeightsAfter(b, 1) = H

\* C18 witness: H = 300, n = 3 gives [0,100), [100,200), [200,300).
C18_Witness ==
    /\ CutDone /\ probe.H = 300 /\ probe.n = 3
    /\ probe.blocks = << <<0, 100>>, <<100, 200>>, <<200, 300>> >>

\* C19 (as claimed): every block satisfies 0 <= sourceStart < sourceEnd <= H.
C19_BlocksStrictlyPositive ==
    CutDone =>
        \A i \in 1..Len(probe.blocks) :
            /\ 0 <= probe.blocks[i][1]
            /\ probe.blocks[i][1] < probe.blocks[i][2]
            /\ probe.blocks[i][2] <= probe.H

\* C19 (amended): every block satisfies 0 <= sourceStart <= sourceEnd <= H,
\* and sourceStart < sourceEnd whenever H >= n.
C19_BlocksWithinHeight ==
    CutDone =>
        \A i \in 1..Len(probe.blocks) :
            /\ 0 <= probe.blocks[i][1]
            /\ probe.blocks[i][1] <= probe.blocks[i][2]
            /\ probe.blocks[i][2] <= probe.H
            /\ (probe.H >= probe.n) =>
                  probe.blocks[i][1] < probe.blocks[i][2]

\* C19 witness: a raster of height 5 cut into 2 slices, [0,2) and [2,5).
C19_Witness ==
    /\ CutDone /\ probe.H = 5 /\ probe.n = 2
    /\ probe.blocks = << <<0, 2>>, <<2, 5>> >>

\* C20: block i is copied to the destination rows that start at the sum of
\* the heights of the blocks after it, its rows in their order: row k of
\* the block lands at that offset + k.
C20_ReverseOrderPlacement ==
    CutDone =>
        /\ canvas.height = probe.H
        /\ \A i \in 1..Len(probe.blocks) :
              \A k \in 0..(BlockHeight(probe.blocks[i]) - 1) :
                  canvas.pixels[HeightsAfter(probe.blocks, i) + k + 1]
                      = [img |-> probe.tok, row |-> probe.blocks[i][1] + k]

\* C20 witness: H = 300, n = 3: source rows 200-299 at destination rows
\* 0-99, 100-199 at 100-199, 0-99 at 200-299.
C20_Witness ==
    /\ CutDone /\ probe.H = 300 /\ probe.n = 3
    /\ canvas.pixels[1].row = 200 /\ canvas.pixels[100].row = 299
    /\ canvas.pixels[101].row = 100 /\ canvas.pixels[200].row = 199
    /\ canvas.pixels[201].row = 0 /\ canvas.pixels[300].row = 99

\* C21: after a reconstruction the canvas has the width and the height of
\* the decoded image and is fully overwritten: every destination row in
\* [0,H) holds a row of the current image, the H destination rows hold H
\* distinct source rows (a bijection on [0,H)), and no row of an earlier
\* reconstruction or of the blank canvas is left.
C21_CanvasFullyOverwritten ==
    CutDone =>
        /\ canvas.width = probe.W
        /\ canvas.height = probe.H
        /\ Len(canvas.pixels) = probe.H
        /\ \A r \in 1..probe.H : canvas.pixels[r].img = probe.tok
        /\ {canvas.pixels[r].row : r \in 1..probe.H} = 0..(probe.H - 1)
        /\ \A r1, r2 \in 1..probe.H :
              canvas.pixels[r1].row = canvas.pixels[r2].row => r1 = r2

\* C21 witness: a second reconstruction on the same canvas, H = 5, n = 3:
\* the destination rows hold the source rows 2,3,4 then 1 then 0 of the
\* second image.
C21_Witness ==
    /\ CutDone /\ probe.tok = 2 /\ probe.H = 5 /\ probe.n = 3
    /\ canvas.height = 5
    /\ [r \in 1..5 |-> canvas.pixels[r].row] = <<2, 3, 4, 1, 0>>
    /\ \A r \in 1..5 : canvas.pixels[r].img = 2

\* C22: for a raster lower than the slice count (H < n, H = 0 included) no
\* block has a negative extent: every block has end - start >= 0, every
\* slice is drawn with a height >= 0 at a destination offset >= 0, and the
\* destination offset after the last slice is H.
C22_NoNegativeExtent ==
    (CutDone /\ probe.H < probe.n) =>
        /\ \A i \in 1..Len(probe.blocks) :
              /\ BlockHeight(probe.blocks[i]) >= 0
              /\ HeightsAfter(probe.blocks, i) >= 0
        /\ probe.destY >= 0
        /\ probe.destY = probe.H

\* C22 witness: H = 3, n = 4: three empty blocks and [0,3), the destination
\* offset ends at 3.
C22_Witness ==
    /\ CutDone /\ probe.H = 3 /\ probe.n = 4
    /\ probe.blocks = << <<0, 0>>, <<0, 0>>, <<0, 0>>, <<0, 3>> >>
    /\ probe.destY = 3

(* ------------------------------- claims about the course of an attempt *)
\* the attempt last started has settled
Settled == last.outcome \in {"original", "reconstructed", "failed"}

\* the slice count of the identifiers bound now
CurrentSliceCount ==
    getSegmentationNum(parseInt(comicId), parseInt(scrambleId),
                       Str(BeforeFirstDot(page)))

\* C23 (as claimed): loading is marked complete only after the attempt's
\* decode has succeeded: every step that leaves the loading state is the
\* successful decode of the current attempt.
C23_CompleteOnlyAfterDecode ==
    [][(loading /\ ~loading') =>
          \E a \in inflight :
              /\ a \notin inflight'
              /\ a.myToken = loadToken
              /\ last'.outcome = "reconstructed"]_vars

\* C23 (amended): the slice count is decided when the attempt starts; a
\* request whose slice count is <= 1 is a no-transform request; a
\* no-transform request issues no decode and has left the loading state
\* from its start; a transform request is in the loading state, with its
\* decode in flight under the slice count decided at the start, until that
\* decode settles, and is out of it once the decode has succeeded or failed.
C23_CompletionFollowsRequestKind ==
    (last.tok > 0) =>
        /\ last.tok = loadToken
        /\ (last.n <= 1) => (last.outcome = "original")
        /\ (last.outcome = "original") =>
              /\ ~loading
              /\ ~needDescramble
              /\ \A a \in inflight : a.myToken # last.tok
        /\ (last.outcome = "pending") =>
              /\ loading
              /\ \E a \in inflight :
                    a.myToken = last.tok /\ a.sliceCount = last.n
        /\ (last.outcome \in {"reconstructed", "failed"}) => ~loading

\* C23 witness: the gate has fired on a no-transform request: loading is
\* already false and no decode was issued.
C23_Witness ==
    /\ last.tok = 1 /\ last.outcome = "original" /\ last.n = 0
    /\ ~loading /\ inflight = {} /\ staleTokens = {}

\* C24: once a later attempt has settled, the raster reconstructed for a
\* superseded request is no longer displayed, and the untransformed image
\* and the canvas are never displayed together.
C24_RasterDiesWithItsRequest ==
    (phase = "mounted") =>
        /\ ~(ImgShown /\ CanvasShown)
        /\ (Settled /\ CanvasShown) => (CanvasTokens \subseteq {last.tok})

\* C25: before the gate has fired no load is started, whatever the changes
\* of the props: loadToken is 0, no decode is in flight and loading is
\* true; the step in which the gate fires starts the load 1 with the src
\* and the slice count of the props bound at that step.
C25_NoLoadBeforeGate ==
    [][/\ (gateFires = 0) =>
             (loadToken = 0 /\ loading /\ inflight = {} /\ captured = <<>>)
       /\ (gateFires' = 0) =>
             (loadToken' = 0 /\ loading' /\ inflight' = {}
                 /\ captured' = <<>>)
       /\ (gateFires' # gateFires) =>
             /\ loadToken' = 1
             /\ captured' = <<1>>
             /\ props' = props
             /\ last'.tok = 1
             /\ last'.src = src
             /\ last'.n = CurrentSliceCount]_vars

\* C25 witness: the gate has fired after src had changed; the one load
\* started so far was started with the src bound now, which is not the
\* src bound at mount.
C25_Witness ==
    /\ gateFires = 1 /\ captured = <<1>> /\ loadToken = 1
    /\ last.src = src /\ last.src # MountSrc

\* C26: the request of an attempt is fixed at its start: while the decode
\* of the current attempt is in flight its handlers hold the slice count
\* and the URL of the start, and the reconstruction is made with that
\* slice count on the image of that attempt, whatever the props are when
\* the decode completes.
C26_RequestImmutable ==
    (last.tok > 0) =>
        /\ \A a \in inflight :
              (a.myToken = last.tok) =>
                  (a.sliceCount = last.n /\ a.src = last.src)
        /\ (cutLog.tok = last.tok) => (cutLog.n = last.n)
        /\ (last.outcome = "reconstructed" /\ phase = "mounted") =>
              /\ cutLog.tok = last.tok
              /\ canvas.height = last.h
              /\ LET blocks == Blocks(last.h, last.n)
                 IN  canvas.pixels =
                        DrawBlocks(Len(blocks) - 1, blocks, 0,
                                   [tok |-> last.tok, w |-> canvas.width,
                                    h |-> last.h],
                                   BlankRows(last.h)).pixels

\* C26 witness: page changed, without a new start, while the decode was in
\* flight; the raster of height 2 was reconstructed with the 2 slices of
\* the start although the props bound at the completion give 4.
C26_Witness ==
    /\ phase = "mounted" /\ last.outcome = "reconstructed"
    /\ cutLog.tok = last.tok /\ cutLog.moved
    /\ last.n = 2 /\ last.h = 2 /\ CurrentSliceCount = 4
    /\ [r \in 1..2 |-> canvas.pixels[r].row] = <<1, 0>>

\* C28: a decode that completes after the teardown changes nothing of the
\* instance: loading, needDescramble and the canvas stay as they are.
C28_TeardownVoidsAttempts ==
    [][(phase = "unmounted") =>
          (loading' = loading /\ needDescramble' = needDescramble
              /\ canvas' = canvas)]_vars

\* C27: once the gate has fired, when every decode issued settles and the
\* source changes are finitely many (at most MaxLoads starts), the instance
\* comes to a point from which loading is false for good; loading becomes
\* true again only in a step that starts a new attempt.
C27_EventuallyLeavesLoading ==
    /\ (gateFires > 0) ~> [](~loading)
    /\ [][(~loading /\ loading') => (loadToken' = loadToken + 1)]_vars

\* C27 witness: the latest of three attempts has left the loading state
\* after both superseded attempts had their decode settle as stale.
C27_Witness ==
    /\ gateFires = 1 /\ loadToken = 3 /\ ~loading
    /\ last.tok = 3 /\ last.outcome = "reconstructed"
    /\ staleTokens = {1, 2} /\ inflight = {}

(* -------------------------------------- claims about download polling *)
\* every active interval timer is the poller
OneTimerAtMost ==
    /\ Cardinality(timers) <= 1
    /\ timers = IF downloadTaskPoller = NoTimer THEN {}
                ELSE {downloadTaskPoller}

\* C29: a response to a request made for one task id that arrives when the
\* poller runs for another task leaves downloadTaskInfo and the poller as
\* they are; at most one interval timer is active at any time.
C29_StaleResponseIgnored ==
    /\ [](Cardinality(timers) <= 1)
    /\ [][\A f \in fetches :
             (f \notin fetches' /\ downloadTaskId \in TaskIds
                 /\ f.id # downloadTaskId
                 /\ downloadTaskPoller # NoTimer) =>
                    /\ downloadTaskInfo' = downloadTaskInfo
                    /\ downloadTaskPoller' = downloadTaskPoller]_vars

====
